---- MODULE Spec2Model ----
(***************************************************************************)
(* SafeDroid: permission-based risk scoring of mobile applications.        *)
(* Reference tables (backend/app_data.py), the PermissionAnalyzer          *)
(* (backend/risk_engine.py) and the service routes (backend/main.py).      *)
(*                                                                         *)
(* Python lists are sequences, dicts with insertion order are sequences    *)
(* of keyed records, an HTTPException is a response with its status code.  *)
(* The free-text fields "description" and "can_access" of a permission's   *)
(* metadata are carried through by the code and never read by a decision;  *)
(* they are left out of the records below.                                 *)
(***************************************************************************)
EXTENDS Integers, Sequences, FiniteSets, TLC

----------------------------------------------------------------------------
(* Bounds of the exploration *)

\* longest permission list passed to the list-taking analyzer operations
MaxLen == 3
\* longest app_names list of a bulk-analyze / compare request
MaxNames == 2
\* largest score handed to calculate_risk_level
MaxScore == 104
\* longest declared_permissions list of the extra app record
MaxDeclared == 17
\* longest dangerous_permissions field of the extra dict-shaped app record
MaxDangerous == 12
\* longest of the long permission lists passed to calculate_severity_score
MaxLongLen == 16
\* most negative score handed to calculate_risk_level
MaxNegative == 2
\* most bands of a risk_thresholds table other than the shipped one
MaxBands == 2

----------------------------------------------------------------------------
(* Reference data: backend/app_data.py *)

PERMISSION_METADATA ==
    "INTERNET" :> [category |-> "SYSTEM", risk_level |-> "NORMAL", severity |-> 1,
        privacy_impact |-> "LOW", dangerous |-> FALSE] @@
    "CAMERA" :> [category |-> "HARDWARE", risk_level |-> "DANGEROUS", severity |-> 8,
        privacy_impact |-> "CRITICAL", dangerous |-> TRUE] @@
    "MICROPHONE" :> [category |-> "HARDWARE", risk_level |-> "DANGEROUS", severity |-> 9,
        privacy_impact |-> "CRITICAL", dangerous |-> TRUE] @@
    "READ_EXTERNAL_STORAGE" :> [category |-> "STORAGE", risk_level |-> "DANGEROUS", severity |-> 7,
        privacy_impact |-> "CRITICAL", dangerous |-> TRUE] @@
    "WRITE_EXTERNAL_STORAGE" :> [category |-> "STORAGE", risk_level |-> "DANGEROUS", severity |-> 7,
        privacy_impact |-> "HIGH", dangerous |-> TRUE] @@
    "LOCATION" :> [category |-> "LOCATION", risk_level |-> "DANGEROUS", severity |-> 9,
        privacy_impact |-> "CRITICAL", dangerous |-> TRUE] @@
    "ACCESS_FINE_LOCATION" :> [category |-> "LOCATION", risk_level |-> "DANGEROUS", severity |-> 9,
        privacy_impact |-> "CRITICAL", dangerous |-> TRUE] @@
    "ACCESS_COARSE_LOCATION" :> [category |-> "LOCATION", risk_level |-> "DANGEROUS", severity |-> 6,
        privacy_impact |-> "HIGH", dangerous |-> TRUE] @@
    "CONTACTS" :> [category |-> "PERSONAL_DATA", risk_level |-> "DANGEROUS", severity |-> 8,
        privacy_impact |-> "CRITICAL", dangerous |-> TRUE] @@
    "READ_CONTACTS" :> [category |-> "PERSONAL_DATA", risk_level |-> "DANGEROUS", severity |-> 8,
        privacy_impact |-> "CRITICAL", dangerous |-> TRUE] @@
    "WRITE_CONTACTS" :> [category |-> "PERSONAL_DATA", risk_level |-> "DANGEROUS", severity |-> 7,
        privacy_impact |-> "HIGH", dangerous |-> TRUE] @@
    "SMS" :> [category |-> "COMMUNICATION", risk_level |-> "DANGEROUS", severity |-> 9,
        privacy_impact |-> "CRITICAL", dangerous |-> TRUE] @@
    "READ_SMS" :> [category |-> "COMMUNICATION", risk_level |-> "DANGEROUS", severity |-> 8,
        privacy_impact |-> "CRITICAL", dangerous |-> TRUE] @@
    "SEND_SMS" :> [category |-> "COMMUNICATION", risk_level |-> "DANGEROUS", severity |-> 8,
        privacy_impact |-> "HIGH", dangerous |-> TRUE] @@
    "CALL_LOG" :> [category |-> "COMMUNICATION", risk_level |-> "DANGEROUS", severity |-> 8,
        privacy_impact |-> "CRITICAL", dangerous |-> TRUE] @@
    "READ_CALL_LOG" :> [category |-> "COMMUNICATION", risk_level |-> "DANGEROUS", severity |-> 8,
        privacy_impact |-> "CRITICAL", dangerous |-> TRUE] @@
    "WRITE_CALL_LOG" :> [category |-> "COMMUNICATION", risk_level |-> "DANGEROUS", severity |-> 7,
        privacy_impact |-> "HIGH", dangerous |-> TRUE] @@
    "PHONE_STATE" :> [category |-> "PHONE_INFO", risk_level |-> "DANGEROUS", severity |-> 6,
        privacy_impact |-> "HIGH", dangerous |-> TRUE] @@
    "CALL_PHONE" :> [category |-> "PHONE_INFO", risk_level |-> "DANGEROUS", severity |-> 7,
        privacy_impact |-> "HIGH", dangerous |-> TRUE] @@
    "READ_CALENDAR" :> [category |-> "PERSONAL_DATA", risk_level |-> "DANGEROUS", severity |-> 7,
        privacy_impact |-> "HIGH", dangerous |-> TRUE] @@
    "WRITE_CALENDAR" :> [category |-> "PERSONAL_DATA", risk_level |-> "DANGEROUS", severity |-> 6,
        privacy_impact |-> "MEDIUM", dangerous |-> TRUE] @@
    "GET_ACCOUNTS" :> [category |-> "ACCOUNT", risk_level |-> "DANGEROUS", severity |-> 6,
        privacy_impact |-> "HIGH", dangerous |-> TRUE] @@
    "SENSORS" :> [category |-> "HARDWARE", risk_level |-> "DANGEROUS", severity |-> 6,
        privacy_impact |-> "MEDIUM", dangerous |-> TRUE] @@
    "DEVICE_ADMIN" :> [category |-> "SYSTEM", risk_level |-> "CRITICAL", severity |-> 10,
        privacy_impact |-> "CRITICAL", dangerous |-> TRUE]

PERMISSION_CATEGORIES ==
    "SYSTEM" :> [name |-> "System Permissions"] @@
    "HARDWARE" :> [name |-> "Hardware Access"] @@
    "STORAGE" :> [name |-> "Storage Access"] @@
    "LOCATION" :> [name |-> "Location Tracking"] @@
    "PERSONAL_DATA" :> [name |-> "Personal Data"] @@
    "COMMUNICATION" :> [name |-> "Communication"] @@
    "PHONE_INFO" :> [name |-> "Phone Information"] @@
    "ACCOUNT" :> [name |-> "Account Information"]

\* a list-shaped app record (isinstance(app_data, list))
ListRecord(perms) == [shape |-> "list", items |-> perms]

\* a dict-shaped app record; fields is the dict itself
DictRecord(fields) == [shape |-> "dict", fields |-> fields]

APP_PERMISSION_DATA ==
    "Instagram" :> ListRecord(<<"INTERNET", "CAMERA", "MICROPHONE", "LOCATION">>) @@
    "WhatsApp" :> ListRecord(<<"INTERNET", "CAMERA", "MICROPHONE", "CONTACTS">>) @@
    "FakeApp" :> ListRecord(<<"INTERNET", "CAMERA", "MICROPHONE", "CONTACTS", "SMS", "CALL_LOG">>) @@
    "TikTok" :> ListRecord(<<"INTERNET", "CAMERA", "MICROPHONE", "LOCATION", "READ_EXTERNAL_STORAGE">>) @@
    "Gmail" :> ListRecord(<<"INTERNET", "GET_ACCOUNTS", "READ_CONTACTS">>)

PERMISSION_CORRELATIONS ==
    "SMS" :> <<"CALL_LOG", "CONTACTS">> @@
    "CALL_LOG" :> <<"SMS", "MICROPHONE">> @@
    "CAMERA" :> <<"CONTACTS", "LOCATION">> @@
    "MICROPHONE" :> <<"CALL_LOG", "CONTACTS">> @@
    "CONTACTS" :> <<"SMS", "CALL_LOG", "LOCATION">> @@
    "LOCATION" :> <<"CAMERA", "MICROPHONE">> @@
    "DEVICE_ADMIN" :> <<"SMS", "CALL_LOG", "CONTACTS">> @@
    "GET_ACCOUNTS" :> <<"CONTACTS", "READ_CALENDAR">>

\* The two shapes of a band the analyzer reads: a 2-tuple (min, max) or a
\* dict with the keys "min" and "max"
TupleBand(items) == [shape |-> "tuple", items |-> items]
DictBand(fields) == [shape |-> "dict", fields |-> fields]

\* dict iteration order is declaration order; each band is the 2-tuple (min, max)
RISK_THRESHOLDS ==
    << [level |-> "LOW", threshold |-> TupleBand(<<0, 15>>)],
       [level |-> "MEDIUM", threshold |-> TupleBand(<<16, 45>>)],
       [level |-> "HIGH", threshold |-> TupleBand(<<46, 85>>)],
       [level |-> "CRITICAL", threshold |-> TupleBand(<<86, 100>>)] >>

----------------------------------------------------------------------------
(* State *)

VARIABLES
    permission_metadata,      \* PERMISSION_METADATA, also held as self.permission_metadata
    permission_categories,    \* PERMISSION_CATEGORIES, also held as self.permission_categories
    app_permission_data,      \* the module-level table APP_PERMISSION_DATA
    permission_correlations,  \* PERMISSION_CORRELATIONS, also held as self.correlations
    risk_thresholds,          \* RISK_THRESHOLDS, also held as self.risk_thresholds
    request,                  \* the call being served: operation and arguments
    response                  \* what the call returned (or the exception it raised)

\* the five reference tables: module-level objects every handler shares
tables == <<permission_metadata, permission_categories, app_permission_data,
            permission_correlations, risk_thresholds>>

vars == <<tables, request, response>>

----------------------------------------------------------------------------
(* Python built-ins used by the code *)

\* x in list
In(x, list) == \E i \in 1..Len(list) : list[i] = x

\* A local variable assigned once: the value is computed where it is bound,
\* as the one element of a set, and read from there by every later use.
The(singleton) == CHOOSE value \in singleton : TRUE

\* dict.get(key, default)
Get(dict, key, default) == IF key \in DOMAIN dict THEN dict[key] ELSE default

----------------------------------------------------------------------------
(* PermissionAnalyzer.calculate_severity_score *)

\* category_scores[category] += severity, creating the key at 0 when first seen
AddCategoryScore(category_scores, category, severity) ==
    LET known == \E i \in 1..Len(category_scores) : category_scores[i].category = category
        opened == IF known THEN category_scores
                  ELSE Append(category_scores, [category |-> category, score |-> 0])
    IN  [i \in 1..Len(opened) |->
            IF opened[i].category = category
            THEN [opened[i] EXCEPT !.score = @ + severity]
            ELSE opened[i]]

\* total_score = severity: the running total is overwritten, not added to
AddSeverityOverwrites(total_score, severity) == severity

\* total_score += severity
AddSeverity(total_score, severity) == total_score + severity

\* the critical bucket starts above 8
BucketAboveEight(severity) ==
    IF severity > 8 THEN "critical" ELSE IF severity >= 5 THEN "dangerous" ELSE "normal"

\* if severity >= 8: critical / elif severity >= 5: dangerous / else: normal
Bucket(severity) ==
    IF severity >= 8 THEN "critical" ELSE IF severity >= 5 THEN "dangerous" ELSE "normal"

\* one iteration of the loop over permissions
SeverityStep(acc, perm) ==
    IF perm \in DOMAIN permission_metadata
    THEN LET meta == permission_metadata[perm]
             severity == meta.severity
             category == meta.category
             entry == [permission |-> perm, severity |-> severity]
         IN  [total_score |-> AddSeverity(acc.total_score, severity),
              category_scores |-> AddCategoryScore(acc.category_scores, category, severity),
              severity_breakdown |->
                  [acc.severity_breakdown EXCEPT ![Bucket(severity)] = Append(@, entry)]]
    ELSE acc

\* for perm in permissions; the loop's variables travel as the one field of
\* locals, so that each iteration reads the previous iteration's value once
RECURSIVE SeverityLoop(_, _)
SeverityLoop(locals, permissions) ==
    IF permissions = <<>> THEN locals
    ELSE SeverityLoop([locals EXCEPT !.acc = SeverityStep(@, Head(permissions))],
                      Tail(permissions))

calculate_severity_score(permissions) ==
    LET start == [total_score |-> 0,
                  category_scores |-> <<>>,
                  severity_breakdown |-> [critical |-> <<>>, dangerous |-> <<>>, normal |-> <<>>]]
    IN  The({[total_score |-> locals.acc.total_score,
              category_scores |-> locals.acc.category_scores,
              severity_breakdown |-> locals.acc.severity_breakdown,
              critical_count |-> Len(locals.acc.severity_breakdown.critical),
              dangerous_count |-> Len(locals.acc.severity_breakdown.dangerous),
              normal_count |-> Len(locals.acc.severity_breakdown.normal)] :
             locals \in {SeverityLoop([acc |-> start], permissions)}})

----------------------------------------------------------------------------
(* PermissionAnalyzer.detect_permission_correlations *)

\* the filter runs over the input instead of over the table's list
found_related_in_input_order(perm, permissions) ==
    SelectSeq(permissions, LAMBDA p : In(p, permission_correlations[perm]))

\* found_related = [p for p in related_perms if p in permissions]
found_related(perm, permissions) ==
    SelectSeq(permission_correlations[perm], LAMBDA p : In(p, permissions))

\* one iteration of the loop over permissions
CorrelationStep(correlations, perm, permissions) ==
    IF perm \in DOMAIN permission_correlations
    THEN LET found == found_related(perm, permissions)
         IN  IF found # <<>>
             THEN Append(correlations,
                         [primary |-> perm, correlated |-> found, count |-> Len(found)])
             ELSE correlations
    ELSE correlations

RECURSIVE CorrelationLoop(_, _, _)
CorrelationLoop(correlations, rest, permissions) ==
    IF rest = <<>> THEN correlations
    ELSE CorrelationLoop(CorrelationStep(correlations, Head(rest), permissions),
                         Tail(rest), permissions)

SmsCallsPattern == "App can intercept SMS and make calls - VERY SUSPICIOUS"
DeviceAdminPattern == "Device admin access requested - CRITICAL THREAT"
CommunicationProfilePattern == "Full communication profile access - EXTREME DATA COLLECTION"
SurveillancePattern == "Complete surveillance capability detected"

\* the rule matches the short names CONTACTS and SMS
CommunicationProfileRuleShortNames(permissions) ==
    In("CONTACTS", permissions) /\ In("SMS", permissions) /\ In("CALL_LOG", permissions)

\* "READ_CONTACTS" in permissions and "READ_SMS" in permissions and "CALL_LOG" in permissions
CommunicationProfileRule(permissions) ==
    In("READ_CONTACTS", permissions) /\ In("READ_SMS", permissions)
    /\ In("CALL_LOG", permissions)

\* the rule accepts the coarse name LOCATION
SurveillanceRuleAnyLocation(permissions) ==
    In("CAMERA", permissions) /\ In("MICROPHONE", permissions) /\ In("LOCATION", permissions)

\* "CAMERA" in permissions and "MICROPHONE" in permissions and "ACCESS_FINE_LOCATION" in permissions
SurveillanceRule(permissions) ==
    In("CAMERA", permissions) /\ In("MICROPHONE", permissions)
    /\ In("ACCESS_FINE_LOCATION", permissions)

\* the four hard-coded rules, appended in this order
suspicious_patterns(permissions) ==
    (IF In("SMS", permissions) /\ In("CALL_PHONE", permissions)
     THEN <<SmsCallsPattern>> ELSE <<>>)
    \o (IF In("DEVICE_ADMIN", permissions)
        THEN <<DeviceAdminPattern>> ELSE <<>>)
    \o (IF CommunicationProfileRule(permissions)
        THEN <<CommunicationProfilePattern>> ELSE <<>>)
    \o (IF SurveillanceRule(permissions)
        THEN <<SurveillancePattern>> ELSE <<>>)

detect_permission_correlations(permissions) ==
    The({[correlations |-> CorrelationLoop(<<>>, permissions, permissions),
          suspicious_patterns |-> patterns,
          pattern_risk_level |-> IF patterns # <<>> THEN "CRITICAL" ELSE "NORMAL"] :
         patterns \in {suspicious_patterns(permissions)}})

----------------------------------------------------------------------------
(* PermissionAnalyzer.categorize_permissions *)

\* the category's list is replaced by the new entry
AppendPermissionReplaces(permissions, entry) == <<entry>>

\* categorized[category]["permissions"].append(entry)
AppendPermission(permissions, entry) == Append(permissions, entry)

\* one iteration of the loop over permissions; categorized keeps key order
CategorizeStep(categorized, perm) ==
    IF perm \in DOMAIN permission_metadata
    THEN LET category == permission_metadata[perm].category
             known == \E i \in 1..Len(categorized) : categorized[i].category = category
             opened == IF known THEN categorized
                       ELSE Append(categorized,
                                   [category |-> category,
                                    name |-> permission_categories[category].name,
                                    permissions |-> <<>>])
             entry == [name |-> perm,
                       severity |-> permission_metadata[perm].severity,
                       risk_level |-> permission_metadata[perm].risk_level]
         IN  [i \in 1..Len(opened) |->
                 IF opened[i].category = category
                 THEN [opened[i] EXCEPT !.permissions = AppendPermission(@, entry)]
                 ELSE opened[i]]
    ELSE categorized

\* self.permission_categories[category] is a plain subscript: for a known
\* permission whose category is not yet in categorized and is no key of the
\* category table it raises KeyError
CategoryLookupRaises(categorized, perm) ==
    /\ perm \in DOMAIN permission_metadata
    /\ \A i \in 1..Len(categorized) : categorized[i].category # permission_metadata[perm].category
    /\ permission_metadata[perm].category \notin DOMAIN permission_categories

\* for perm in permissions; categorized travels as a field of locals, and an
\* exception ends the loop
RECURSIVE CategorizeLoop(_, _)
CategorizeLoop(locals, permissions) ==
    IF permissions = <<>> THEN locals
    ELSE IF CategoryLookupRaises(locals.categorized, Head(permissions))
    THEN [locals EXCEPT !.raised = "KeyError"]
    ELSE CategorizeLoop([locals EXCEPT !.categorized = CategorizeStep(@, Head(permissions))],
                        Tail(permissions))

\* the call does not return: the exception leaves categorize_permissions
categorize_raises(permissions) ==
    CategorizeLoop([categorized |-> <<>>, raised |-> ""], permissions).raised # ""

\* the dict the call returns when it returns
categorize_permissions(permissions) ==
    CategorizeLoop([categorized |-> <<>>, raised |-> ""], permissions).categorized

----------------------------------------------------------------------------
(* PermissionAnalyzer.calculate_risk_level *)

\* the lower bound is compared strictly
InBandStrictMin(threshold, score) == threshold[1] < score /\ score <= threshold[2]

\* the upper bound is not compared
InBandNoMax(threshold, score) == threshold[1] <= score

\* threshold[0] <= score <= threshold[1]  (Python indexes from 0)
InBand(threshold, score) == threshold[1] <= score /\ score <= threshold[2]

\* the "min" key is not read: the lower bound is always the default
InBandDictDefaultMin(fields, score) == 0 <= score /\ score <= Get(fields, "max", 100)

\* threshold.get("min", 0) <= score <= threshold.get("max", 100)
InBandDict(fields, score) ==
    Get(fields, "min", 0) <= score /\ score <= Get(fields, "max", 100)

\* the isinstance tests on one band: a dict, a tuple of length 2, or neither
Matches(threshold, score) ==
    CASE threshold.shape = "dict" -> InBandDict(threshold.fields, score)
      [] threshold.shape = "tuple" /\ Len(threshold.items) = 2 -> InBand(threshold.items, score)
      [] OTHER -> FALSE

\* for level, threshold in self.risk_thresholds.items(); falls through to CRITICAL
RECURSIVE RiskLevelLoop(_, _)
RiskLevelLoop(thresholds, score) ==
    IF thresholds = <<>> THEN "CRITICAL"
    ELSE IF Matches(Head(thresholds).threshold, score) THEN Head(thresholds).level
    ELSE RiskLevelLoop(Tail(thresholds), score)

calculate_risk_level(score) == RiskLevelLoop(risk_thresholds, score)

----------------------------------------------------------------------------
(* PermissionAnalyzer.analyze_privacy_impact (the grouping by impact band) *)

analyze_privacy_impact(permissions) ==
    LET known == SelectSeq(permissions, LAMBDA p : p \in DOMAIN permission_metadata)
        band(impact) == SelectSeq(known, LAMBDA p : permission_metadata[p].privacy_impact = impact)
    IN  [privacy_impacts |-> [CRITICAL |-> band("CRITICAL"), HIGH |-> band("HIGH"),
                              MEDIUM |-> band("MEDIUM"), LOW |-> band("LOW")],
         critical_data_access |-> Len(band("CRITICAL")) > 0]

----------------------------------------------------------------------------
(* The two shapes of an app record *)

\* permissions of a record: the list itself, or .get("declared_permissions", [])
DeclaredPermissions(app_data) ==
    IF app_data.shape = "list" THEN app_data.items
    ELSE Get(app_data.fields, "declared_permissions", <<>>)

\* dangerous_permissions: computed from the metadata for a list, read from the dict
DangerousPermissions(app_data) ==
    IF app_data.shape = "list"
    THEN SelectSeq(app_data.items,
                   LAMBDA p : p \in DOMAIN permission_metadata /\ permission_metadata[p].dangerous)
    ELSE Get(app_data.fields, "dangerous_permissions", <<>>)

----------------------------------------------------------------------------
(* PermissionAnalyzer.detect_threat_indicators *)

DeviceAdminThreat == "Device admin access"
ExcessiveDangerousThreat == "Excessive dangerous permissions"
FinancialThreat == "Can make calls or send SMS (financial risk)"
PermissionCountThreat == "Unusually high number of permission requests"

\* Check for privilege escalation
PrivilegeRule(indicators, permissions) ==
    IF In("DEVICE_ADMIN", permissions)
    THEN [indicators EXCEPT !.privilege_escalation = TRUE,
                            !.detected_threats = Append(@, DeviceAdminThreat)]
    ELSE indicators

\* the CRITICAL band starts at 10 instead of above 10
ExfiltrationRuleFromTen(indicators, dangerous_count) ==
    IF dangerous_count >= 10
    THEN [indicators EXCEPT !.data_exfiltration_risk = "CRITICAL",
                            !.detected_threats = Append(@, ExcessiveDangerousThreat)]
    ELSE IF dangerous_count > 6
    THEN [indicators EXCEPT !.data_exfiltration_risk = "HIGH"]
    ELSE IF dangerous_count > 3
    THEN [indicators EXCEPT !.data_exfiltration_risk = "MEDIUM"]
    ELSE indicators

\* Assess data exfiltration risk
ExfiltrationRule(indicators, dangerous_count) ==
    IF dangerous_count > 10
    THEN [indicators EXCEPT !.data_exfiltration_risk = "CRITICAL",
                            !.detected_threats = Append(@, ExcessiveDangerousThreat)]
    ELSE IF dangerous_count > 6
    THEN [indicators EXCEPT !.data_exfiltration_risk = "HIGH"]
    ELSE IF dangerous_count > 3
    THEN [indicators EXCEPT !.data_exfiltration_risk = "MEDIUM"]
    ELSE indicators

\* the financial threat is put at the front of detected_threats
FinancialRuleInsertsFirst(indicators, permissions) ==
    IF In("SEND_SMS", permissions) \/ In("CALL_PHONE", permissions)
    THEN [indicators EXCEPT !.financial_risk = "HIGH",
                            !.detected_threats = <<FinancialThreat>> \o @]
    ELSE indicators

\* Financial risk assessment
FinancialRule(indicators, permissions) ==
    IF In("SEND_SMS", permissions) \/ In("CALL_PHONE", permissions)
    THEN [indicators EXCEPT !.financial_risk = "HIGH",
                            !.detected_threats = Append(@, FinancialThreat)]
    ELSE indicators

\* Privacy risk
PrivacyRule(indicators, permissions) ==
    IF Len(permissions) > 15
    THEN [indicators EXCEPT !.privacy_risk = "CRITICAL",
                            !.detected_threats = Append(@, PermissionCountThreat)]
    ELSE IF Len(permissions) > 10
    THEN [indicators EXCEPT !.privacy_risk = "HIGH"]
    ELSE indicators

detect_threat_indicators(app_name) ==
    LET indicators == [privilege_escalation |-> FALSE,
                       data_exfiltration_risk |-> "LOW",
                       financial_risk |-> "LOW",
                       privacy_risk |-> "LOW",
                       detected_threats |-> <<>>]
    IN  IF app_name \notin DOMAIN app_permission_data THEN indicators
        ELSE LET app_data == app_permission_data[app_name]
                 permissions == DeclaredPermissions(app_data)
                 dangerous_permissions == DangerousPermissions(app_data)
             IN  PrivacyRule(
                     FinancialRule(
                         ExfiltrationRule(
                             PrivilegeRule(indicators, permissions),
                             Len(dangerous_permissions)),
                         permissions),
                     permissions)

----------------------------------------------------------------------------
(* PermissionAnalyzer.analyze_app_comprehensive, calculate_risk, analyze_app *)

analyze_app_comprehensive(app_name) ==
    IF app_name \notin DOMAIN app_permission_data
    THEN [error |-> "App not found in database"]
    ELSE IF categorize_raises(DeclaredPermissions(app_permission_data[app_name]))
    THEN [raised |-> "KeyError"]
    ELSE LET app_data == app_permission_data[app_name]
             permissions == DeclaredPermissions(app_data)
             dangerous_permissions == DangerousPermissions(app_data)
             runtime_permissions ==
                 IF app_data.shape = "list" THEN <<>>
                 ELSE Get(app_data.fields, "runtime_permissions", <<>>)
             version ==
                 IF app_data.shape = "list" THEN "Unknown"
                 ELSE Get(app_data.fields, "version", "Unknown")
         IN  The({[app_name |-> app_name,
                   version |-> version,
                   risk_score |-> severity_analysis.total_score,
                   risk_level |-> calculate_risk_level(severity_analysis.total_score),
                   permission_analysis |->
                       [total_declared |-> Len(permissions),
                        dangerous_count |-> Len(dangerous_permissions),
                        runtime_requested |-> Len(runtime_permissions),
                        severity_breakdown |-> severity_analysis.severity_breakdown,
                        category_scores |-> severity_analysis.category_scores],
                   risk_assessment |->
                       [severity |-> severity_analysis,
                        correlations |-> detect_permission_correlations(permissions),
                        threat_indicators |-> threat_indicators],
                   privacy_analysis |-> analyze_privacy_impact(permissions),
                   categorized_permissions |-> categorize_permissions(permissions),
                   threat_indicators |-> threat_indicators] :
                  severity_analysis \in {calculate_severity_score(permissions)},
                  threat_indicators \in {detect_threat_indicators(app_name)}})

\* legacy entry point: (score, level, explanations)
calculate_risk(permissions) ==
    The({LET score == severity_data.total_score
             critical == severity_data.severity_breakdown.critical
             dangerous == severity_data.severity_breakdown.dangerous
             patterns == correlations.suspicious_patterns
         IN  [score |-> score,
              level |-> calculate_risk_level(score),
              explanations |->
                  [i \in 1..Len(critical) |->
                      [tag |-> "CRITICAL", text |-> critical[i].permission,
                       severity |-> critical[i].severity]]
                  \o [i \in 1..Len(dangerous) |->
                      [tag |-> "DANGEROUS", text |-> dangerous[i].permission, severity |-> 0]]
                  \o [i \in 1..Len(patterns) |->
                      [tag |-> "PATTERN", text |-> patterns[i], severity |-> 0]]] :
         severity_data \in {calculate_severity_score(permissions)},
         correlations \in {detect_permission_correlations(permissions)}})

analyze_app(app_name) == analyze_app_comprehensive(app_name)

----------------------------------------------------------------------------
(* Service routes: backend/main.py.  A route returns a body or raises an   *)
(* HTTPException carrying a status code.                                   *)

\* a dict-shaped record is read through its dangerous_permissions key
RoutePermissionsDangerousOnly(app_data) ==
    IF app_data.shape = "list" THEN app_data.items
    ELSE Get(app_data.fields, "dangerous_permissions", <<>>)

\* the routes' own reading of a record: the list itself, or
\* app_data.get("declared_permissions", []) of a dict
RoutePermissions(app_data) ==
    IF app_data.shape = "list" THEN app_data.items
    ELSE Get(app_data.fields, "declared_permissions", <<>>)

Return(body) == [outcome |-> "return", body |-> body]
HTTPException(status_code, detail) ==
    [outcome |-> "http_error", status_code |-> status_code, detail |-> detail]

\* an exception no handler catches leaves the route
Raise(exception) == [outcome |-> "raise", exception |-> exception]

\* what a call of an analyzer entry point gives its caller
Outcome(result) ==
    IF "raised" \in DOMAIN result THEN Raise(result.raised) ELSE Return(result)

\* POST /scan
scan_app(app_name) ==
    IF app_name \notin DOMAIN app_permission_data
    THEN HTTPException(404, "App not found in extracted metadata database")
    ELSE LET permissions == RoutePermissions(app_permission_data[app_name])
         IN  The({Return([app_name |-> app_name,
                          extracted_permissions |-> permissions,
                          risk_score |-> risk.score,
                          risk_level |-> risk.level,
                          explanations |-> risk.explanations]) :
                  risk \in {calculate_risk(permissions)}})

\* POST /analyze
analyze_route(app_name) ==
    IF app_name \notin DOMAIN app_permission_data
    THEN HTTPException(404, "App not found in database")
    ELSE The({IF "raised" \in DOMAIN result
              THEN Raise(result.raised)
              ELSE IF "error" \in DOMAIN result
              THEN HTTPException(404, result.error)
              ELSE Return(result) :
              result \in {analyze_app(app_name)}})

\* only the first unknown name is collected
invalid_perms_first_only(permissions) ==
    LET unknown == SelectSeq(permissions, LAMBDA p : p \notin DOMAIN permission_metadata)
    IN  IF unknown = <<>> THEN <<>> ELSE <<Head(unknown)>>

\* [p for p in data.permissions if p not in PERMISSION_METADATA]
invalid_perms(permissions) ==
    SelectSeq(permissions, LAMBDA p : p \notin DOMAIN permission_metadata)

\* POST /analyze-permissions
analyze_permissions(permissions) ==
    IF invalid_perms(permissions) # <<>>
    THEN Return([warning |-> invalid_perms(permissions),
                 valid_permissions |->
                     SelectSeq(permissions, LAMBDA p : p \in DOMAIN permission_metadata)])
    ELSE IF categorize_raises(permissions)
    THEN Raise("KeyError")
    ELSE The({Return([permissions_count |-> Len(permissions),
                      risk_score |-> severity_analysis.total_score,
                      risk_level |-> calculate_risk_level(severity_analysis.total_score),
                      severity_analysis |-> severity_analysis,
                      correlation_analysis |-> detect_permission_correlations(permissions),
                      privacy_analysis |-> analyze_privacy_impact(permissions),
                      categorized_permissions |-> categorize_permissions(permissions)]) :
              severity_analysis \in {calculate_severity_score(permissions)}})

\* POST /detect-threats
detect_threats(app_name) ==
    IF app_name \notin DOMAIN app_permission_data
    THEN HTTPException(404, "App not found in database")
    ELSE LET permissions == RoutePermissions(app_permission_data[app_name])
         IN  The({Return([app_name |-> app_name,
                          threat_indicators |-> detect_threat_indicators(app_name),
                          suspicious_patterns |-> correlations.suspicious_patterns,
                          pattern_risk_level |-> correlations.pattern_risk_level]) :
                  correlations \in {detect_permission_correlations(permissions)}})

\* the test on the error field is inverted: only error results are kept
BulkStepKeepsErrors(results, app_name) ==
    IF app_name \in DOMAIN app_permission_data
    THEN The({IF "error" \in DOMAIN result THEN Append(results, result) ELSE results :
              result \in {analyze_app(app_name)}})
    ELSE results

\* one iteration of bulk_analyze's loop over app_names
BulkStep(results, app_name) ==
    IF app_name \in DOMAIN app_permission_data
    THEN The({IF "error" \notin DOMAIN result THEN Append(results, result) ELSE results :
              result \in {analyze_app(app_name)}})
    ELSE results

RECURSIVE BulkLoop(_, _)
BulkLoop(results, app_names) ==
    IF app_names = <<>> THEN results
    ELSE BulkLoop(BulkStep(results, Head(app_names)), Tail(app_names))

\* list.count(x)
Count(list, x) == Cardinality({i \in 1..Len(list) : list[i] = x})

RECURSIVE SumScores(_)
SumScores(results) ==
    IF results = <<>> THEN 0 ELSE Head(results).risk_score + SumScores(Tail(results))

\* round(total / n, 2), kept exact as hundredths; Python rounds a tie to the even digit
RoundedAverage(total, n) ==
    LET q == (100 * total) \div n
        r == (100 * total) % n
    IN  IF 2 * r > n THEN q + 1
        ELSE IF 2 * r < n THEN q
        ELSE IF q % 2 = 0 THEN q ELSE q + 1

\* POST /bulk-analyze; an exception out of analyze_app leaves the loop and the route
bulk_analyze(app_names) ==
    IF \E i \in 1..Len(app_names) :
          /\ app_names[i] \in DOMAIN app_permission_data
          /\ "raised" \in DOMAIN analyze_app(app_names[i])
    THEN Raise("KeyError")
    ELSE
    The({IF results = <<>>
         THEN HTTPException(404, "No valid apps found")
         ELSE The({Return([total_apps_analyzed |-> Len(results),
                           average_risk_score_x100 |-> avg_score_x100,
                           risk_level_distribution |->
                               [CRITICAL |-> Count(risk_levels, "CRITICAL"),
                                HIGH |-> Count(risk_levels, "HIGH"),
                                MEDIUM |-> Count(risk_levels, "MEDIUM"),
                                LOW |-> Count(risk_levels, "LOW")],
                           apps |-> results]) :
                   risk_levels \in {[i \in 1..Len(results) |-> results[i].risk_level]},
                   avg_score_x100 \in {RoundedAverage(SumScores(results), Len(results))}}) :
         results \in {BulkLoop(<<>>, app_names)}})

\* one iteration of compare_apps' loop over app_names
CompareStep(apps_data, app_name) ==
    IF app_name \notin DOMAIN app_permission_data THEN apps_data
    ELSE LET permissions == RoutePermissions(app_permission_data[app_name])
         IN  The({Append(apps_data,
                         [app_name |-> app_name,
                          risk_score |-> severity.total_score,
                          permission_count |-> Len(permissions),
                          dangerous_count |-> severity.critical_count + severity.dangerous_count,
                          critical_permissions |-> severity.severity_breakdown.critical]) :
                  severity \in {calculate_severity_score(permissions)}})

RECURSIVE CompareLoop(_, _)
CompareLoop(apps_data, app_names) ==
    IF app_names = <<>> THEN apps_data
    ELSE CompareLoop(CompareStep(apps_data, Head(app_names)), Tail(app_names))

\* a later item with an equal key replaces the best
MaxKeepsLast(best, item) == item.risk_score >= best.risk_score

\* max(items, key=risk_score) keeps the first of equal maxima:
\* a later item replaces the best only when its key is strictly greater
MaxKeeps(best, item) == item.risk_score > best.risk_score

\* min(items, key=risk_score) keeps the first of equal minima
MinKeeps(best, item) == item.risk_score < best.risk_score

RECURSIVE MaxLoop(_, _)
MaxLoop(best, items) ==
    IF items = <<>> THEN best
    ELSE MaxLoop(IF MaxKeeps(best, Head(items)) THEN Head(items) ELSE best, Tail(items))

RECURSIVE MinLoop(_, _)
MinLoop(best, items) ==
    IF items = <<>> THEN best
    ELSE MinLoop(IF MinKeeps(best, Head(items)) THEN Head(items) ELSE best, Tail(items))

\* POST /compare
compare_apps(app_names) ==
    IF Len(app_names) < 2
    THEN HTTPException(400, "Provide at least 2 apps to compare")
    ELSE The({IF apps_data = <<>>
              THEN HTTPException(404, "No valid apps found")
              ELSE Return([comparison |-> apps_data,
                           highest_risk |-> MaxLoop(Head(apps_data), Tail(apps_data)).app_name,
                           lowest_risk |-> MinLoop(Head(apps_data), Tail(apps_data)).app_name]) :
              apps_data \in {CompareLoop(<<>>, app_names)}})

----------------------------------------------------------------------------
(* The read-only routes of backend/main.py *)

\* GET /permissions; a category of None and the empty string are both falsy
\* and are both passed as ""
get_permissions(category) ==
    IF category # ""
    THEN IF category \notin DOMAIN permission_categories
         THEN HTTPException(400, <<"Invalid category: ", category>>)
         ELSE Return([category |-> category,
                      permissions |->
                          [perm \in {q \in DOMAIN permission_metadata :
                                        permission_metadata[q].category = category}
                              |-> permission_metadata[perm]]])
    ELSE Return(permission_metadata)

\* GET /permission-categories
get_permission_categories == Return(permission_categories)

\* the names an app table may hold, in the order sorted() gives strings
SortedNames == <<"ExtraApp", "FakeApp", "Gmail", "Instagram", "TikTok", "WhatsApp">>

\* one entry of the apps list, by the shape of the record
AppEntry(app_name, app_data) ==
    IF app_data.shape = "dict"
    THEN [name |-> app_name,
          version |-> Get(app_data.fields, "version", "Unknown"),
          risk_level |-> Get(Get(app_data.fields, "risk_profile", <<>>), "risk_level", "Unknown"),
          permissions_count |-> Len(Get(app_data.fields, "declared_permissions", <<>>))]
    ELSE [name |-> app_name,
          version |-> "Unknown",
          permissions_count |-> Len(app_data.items)]

\* GET /apps: one entry per record, returned sorted by name
get_available_apps ==
    LET names == SelectSeq(SortedNames, LAMBDA n : n \in DOMAIN app_permission_data)
    IN  Return([i \in 1..Len(names) |-> AppEntry(names[i], app_permission_data[names[i]])])

\* GET /health
health_check ==
    Return([status |-> "healthy",
            version |-> "2.0.0",
            apps_in_database |-> Cardinality(DOMAIN app_permission_data),
            permissions_tracked |-> Cardinality(DOMAIN permission_metadata)])

----------------------------------------------------------------------------
(* What a call leaves in the shared tables *)

\* the handler appends to the list it was handed
declared_after_call_appended(permissions) == Append(permissions, "INTERNET")

\* permissions = app_data / app_data.get("declared_permissions", []) binds the
\* handler's local to the table's own list object.  The handlers iterate it,
\* test membership and take its length; none assigns into it or calls a
\* mutating method on it, so the table holds the same list after the call.
declared_after_call(permissions) == permissions

\* the record of an app after a handler has run over it
RecordAfterCall(app_data) ==
    IF app_data.shape = "list"
    THEN ListRecord(declared_after_call(app_data.items))
    ELSE IF "declared_permissions" \in DOMAIN app_data.fields
    THEN DictRecord([app_data.fields EXCEPT !.declared_permissions = declared_after_call(@)])
    ELSE app_data

\* APP_PERMISSION_DATA after the handlers have looked up the given names
RECURSIVE TableAfterCalls(_, _)
TableAfterCalls(table, app_names) ==
    IF app_names = <<>> THEN table
    ELSE TableAfterCalls(IF Head(app_names) \in DOMAIN table
                         THEN [table EXCEPT ![Head(app_names)] = RecordAfterCall(@)]
                         ELSE table,
                         Tail(app_names))

\* the tables no handler holds an alias into
analyzer_tables ==
    <<permission_metadata, permission_categories, permission_correlations, risk_thresholds>>

----
(* Inputs *)

\* permission names a caller may send: every name the pattern rules and the
\* bucket boundaries distinguish, and one name the metadata does not know
PermissionNames ==
    {"INTERNET", "CAMERA", "MICROPHONE", "LOCATION", "ACCESS_FINE_LOCATION",
     "CONTACTS", "READ_CONTACTS", "SMS", "READ_SMS", "CALL_LOG", "CALL_PHONE",
     "DEVICE_ADMIN", "BLUETOOTH"}

PermissionLists == UNION {[1..n -> PermissionNames] : n \in 0..MaxLen}

\* app names a caller may send: every key of the table and one absent name
AppNames == DOMAIN app_permission_data \cup {"UnknownApp"}

AppNameLists == UNION {[1..n -> AppNames] : n \in 0..MaxNames}

Scores == (0 - MaxNegative)..MaxScore

\* Records the table may hold besides the shipped ones: a lead of the
\* permissions the threat rules name, then the first n names of Filler.  The analyzer reads
\* both record shapes; the shipped table only holds lists of at most six
\* permissions, so the count bands and the dict branch are exercised on a
\* table extended by one record.
Prefix(list, n) == SubSeq(list, 1, n)

Filler ==
    <<"INTERNET", "BLUETOOTH", "CAMERA", "MICROPHONE", "READ_EXTERNAL_STORAGE",
      "WRITE_EXTERNAL_STORAGE", "LOCATION", "ACCESS_FINE_LOCATION",
      "ACCESS_COARSE_LOCATION", "CONTACTS", "READ_CONTACTS", "WRITE_CONTACTS",
      "SMS", "READ_SMS", "CALL_LOG", "READ_CALL_LOG", "WRITE_CALL_LOG",
      "PHONE_STATE", "READ_CALENDAR", "WRITE_CALENDAR", "GET_ACCOUNTS", "SENSORS">>

DangerousFiller ==
    SelectSeq(Filler, LAMBDA p : p \in DOMAIN PERMISSION_METADATA /\ PERMISSION_METADATA[p].dangerous)

ListLeads == {<<>>, <<"DEVICE_ADMIN">>, <<"SEND_SMS">>, <<"CALL_PHONE", "DEVICE_ADMIN">>}
DictLeads == {<<>>, <<"CALL_PHONE", "DEVICE_ADMIN">>}

DeclaredLists(leads) ==
    {lead \o Prefix(Filler, n) : lead \in leads, n \in 0..MaxDeclared}

ExtraRecords ==
    {ListRecord(declared) : declared \in DeclaredLists(ListLeads)}
    \cup {DictRecord([version |-> "1.0",
                      declared_permissions |-> declared,
                      dangerous_permissions |-> Prefix(DangerousFiller, d)]) :
             declared \in DeclaredLists(DictLeads), d \in 0..MaxDangerous}
    \cup {DictRecord([version |-> "1.0"])}

AppTables ==
    {APP_PERMISSION_DATA}
    \cup {APP_PERMISSION_DATA @@ ("ExtraApp" :> r) : r \in ExtraRecords}

\* the category argument of GET /permissions: absent, every key of the
\* category table and one name that is no key
CategoryArguments == {""} \cup DOMAIN PERMISSION_CATEGORIES \cup {"NETWORKING"}

\* Category tables the analyzer may be constructed over: the shipped one and
\* the shipped one with one category left out
CategoryTables ==
    {PERMISSION_CATEGORIES}
    \cup {[c \in DOMAIN PERMISSION_CATEGORIES \ {missing} |-> PERMISSION_CATEGORIES[c]] :
             missing \in DOMAIN PERMISSION_CATEGORIES}

\* lists longer than MaxLen: a caller may send any number of names, and the
\* total score grows with every known one
LongLists == {Prefix(Filler, n) : n \in 0..MaxLongLen}

\* Band tables the analyzer may be constructed over: the shipped bands in
\* either shape, and tables of up to MaxBands bands over the edges below,
\* each band a 2-tuple or a {min, max} dict, gaps, overlaps and empty bands
\* included.
BandEdges == {0, 15, 16}

BandLevels == <<"LOW", "MEDIUM", "HIGH", "CRITICAL">>

BandShapes(min, max) == {TupleBand(<<min, max>>), DictBand([min |-> min, max |-> max])}

ThresholdTables ==
    {[i \in 1..Len(RISK_THRESHOLDS) |->
         [level |-> RISK_THRESHOLDS[i].level,
          threshold |-> IF dicts
                        THEN DictBand([min |-> RISK_THRESHOLDS[i].threshold.items[1],
                                       max |-> RISK_THRESHOLDS[i].threshold.items[2]])
                        ELSE RISK_THRESHOLDS[i].threshold]] : dicts \in BOOLEAN}
    \cup UNION {{[i \in 1..n |-> [level |-> BandLevels[i], threshold |-> bands[i]]] :
                    bands \in [1..n -> UNION {BandShapes(min, max) :
                                                 min \in BandEdges, max \in BandEdges}]} :
                 n \in 1..MaxBands}

----------------------------------------------------------------------------
(* The service as a state machine: requests are served one at a time.  An  *)
(* idle service takes a call and runs its handler to the end; Reply hands  *)
(* the response back and the service is idle again.                        *)

Idle == request.op = "none"

Init ==
    /\ permission_metadata = PERMISSION_METADATA
    /\ permission_categories = PERMISSION_CATEGORIES
    /\ app_permission_data = APP_PERMISSION_DATA
    /\ permission_correlations = PERMISSION_CORRELATIONS
    /\ risk_thresholds = RISK_THRESHOLDS
    /\ request = [op |-> "none"]
    /\ response = [outcome |-> "none"]

CalculateSeverityScore ==
    \E permissions \in PermissionLists \cup LongLists :
        /\ Idle
        /\ request' = [op |-> "calculate_severity_score", permissions |-> permissions]
        /\ response' = Return(calculate_severity_score(permissions))
        /\ UNCHANGED tables

DetectPermissionCorrelations ==
    \E permissions \in PermissionLists :
        /\ Idle
        /\ request' = [op |-> "detect_permission_correlations", permissions |-> permissions]
        /\ response' = Return(detect_permission_correlations(permissions))
        /\ UNCHANGED tables

CategorizePermissions ==
    \E permissions \in PermissionLists :
        /\ Idle
        /\ request' = [op |-> "categorize_permissions", permissions |-> permissions]
        /\ response' = IF categorize_raises(permissions)
                        THEN Raise("KeyError")
                        ELSE Return(categorize_permissions(permissions))
        /\ UNCHANGED tables

CalculateRiskLevel ==
    \E score \in Scores :
        /\ Idle
        /\ request' = [op |-> "calculate_risk_level", score |-> score]
        /\ response' = Return(calculate_risk_level(score))
        /\ UNCHANGED tables

DetectThreatIndicators ==
    \E app_name \in AppNames :
        /\ Idle
        /\ request' = [op |-> "detect_threat_indicators", app_name |-> app_name]
        /\ response' = Return(detect_threat_indicators(app_name))
        /\ app_permission_data' = TableAfterCalls(app_permission_data, <<app_name>>)
        /\ UNCHANGED analyzer_tables

AnalyzeApp ==
    \E app_name \in AppNames :
        /\ Idle
        /\ request' = [op |-> "analyze_app", app_name |-> app_name]
        /\ response' = Outcome(analyze_app(app_name))
        /\ app_permission_data' = TableAfterCalls(app_permission_data, <<app_name>>)
        /\ UNCHANGED analyzer_tables

ScanApp ==
    \E app_name \in AppNames :
        /\ Idle
        /\ request' = [op |-> "scan_app", app_name |-> app_name]
        /\ response' = scan_app(app_name)
        /\ app_permission_data' = TableAfterCalls(app_permission_data, <<app_name>>)
        /\ UNCHANGED analyzer_tables

AnalyzeRoute ==
    \E app_name \in AppNames :
        /\ Idle
        /\ request' = [op |-> "analyze_route", app_name |-> app_name]
        /\ response' = analyze_route(app_name)
        /\ app_permission_data' = TableAfterCalls(app_permission_data, <<app_name>>)
        /\ UNCHANGED analyzer_tables

AnalyzePermissions ==
    \E permissions \in PermissionLists :
        /\ Idle
        /\ request' = [op |-> "analyze_permissions", permissions |-> permissions]
        /\ response' = analyze_permissions(permissions)
        /\ UNCHANGED tables

DetectThreats ==
    \E app_name \in AppNames :
        /\ Idle
        /\ request' = [op |-> "detect_threats", app_name |-> app_name]
        /\ response' = detect_threats(app_name)
        /\ app_permission_data' = TableAfterCalls(app_permission_data, <<app_name>>)
        /\ UNCHANGED analyzer_tables

BulkAnalyze ==
    \E app_names \in AppNameLists :
        /\ Idle
        /\ request' = [op |-> "bulk_analyze", app_names |-> app_names]
        /\ response' = bulk_analyze(app_names)
        /\ app_permission_data' = TableAfterCalls(app_permission_data, app_names)
        /\ UNCHANGED analyzer_tables

CompareApps ==
    \E app_names \in AppNameLists :
        /\ Idle
        /\ request' = [op |-> "compare_apps", app_names |-> app_names]
        /\ response' = compare_apps(app_names)
        /\ app_permission_data' = TableAfterCalls(app_permission_data, app_names)
        /\ UNCHANGED analyzer_tables

GetPermissions ==
    \E category \in CategoryArguments :
        /\ Idle
        /\ request' = [op |-> "get_permissions", category |-> category]
        /\ response' = get_permissions(category)
        /\ UNCHANGED tables

GetPermissionCategories ==
    /\ Idle
    /\ request' = [op |-> "get_permission_categories"]
    /\ response' = get_permission_categories
    /\ UNCHANGED tables

GetAvailableApps ==
    /\ Idle
    /\ request' = [op |-> "get_available_apps"]
    /\ response' = get_available_apps
    /\ UNCHANGED tables

HealthCheck ==
    /\ Idle
    /\ request' = [op |-> "health_check"]
    /\ response' = health_check
    /\ UNCHANGED tables

Reply ==
    /\ ~Idle
    /\ request' = [op |-> "none"]
    /\ response' = [outcome |-> "none"]
    /\ UNCHANGED tables

Next ==
    \/ CalculateSeverityScore
    \/ DetectPermissionCorrelations
    \/ CategorizePermissions
    \/ CalculateRiskLevel
    \/ DetectThreatIndicators
    \/ AnalyzeApp
    \/ ScanApp
    \/ AnalyzeRoute
    \/ AnalyzePermissions
    \/ DetectThreats
    \/ BulkAnalyze
    \/ CompareApps
    \/ GetPermissions
    \/ GetPermissionCategories
    \/ GetAvailableApps
    \/ HealthCheck
    \/ Reply

Spec == Init /\ [][Next]_vars

\* The app-name operations over every table of AppTables
InitTables ==
    /\ permission_metadata = PERMISSION_METADATA
    /\ permission_categories = PERMISSION_CATEGORIES
    /\ app_permission_data \in AppTables
    /\ permission_correlations = PERMISSION_CORRELATIONS
    /\ risk_thresholds = RISK_THRESHOLDS
    /\ request = [op |-> "none"]
    /\ response = [outcome |-> "none"]

NextTables ==
    \/ DetectThreatIndicators
    \/ DetectThreats
    \/ CompareApps
    \/ ScanApp
    \/ AnalyzeApp
    \/ GetAvailableApps
    \/ HealthCheck
    \/ Reply

SpecTables == InitTables /\ [][NextTables]_vars

\* calculate_risk_level over every table of ThresholdTables
InitThresholds ==
    /\ permission_metadata = PERMISSION_METADATA
    /\ permission_categories = PERMISSION_CATEGORIES
    /\ app_permission_data = APP_PERMISSION_DATA
    /\ permission_correlations = PERMISSION_CORRELATIONS
    /\ risk_thresholds \in ThresholdTables
    /\ request = [op |-> "none"]
    /\ response = [outcome |-> "none"]

NextThresholds ==
    \/ CalculateRiskLevel
    \/ Reply

SpecThresholds == InitThresholds /\ [][NextThresholds]_vars

\* the categorizing operations over every table of CategoryTables
InitCategories ==
    /\ permission_metadata = PERMISSION_METADATA
    /\ permission_categories \in CategoryTables
    /\ app_permission_data = APP_PERMISSION_DATA
    /\ permission_correlations = PERMISSION_CORRELATIONS
    /\ risk_thresholds = RISK_THRESHOLDS
    /\ request = [op |-> "none"]
    /\ response = [outcome |-> "none"]

NextCategories ==
    \/ CategorizePermissions
    \/ AnalyzePermissions
    \/ GetPermissions
    \/ Reply

SpecCategories == InitCategories /\ [][NextCategories]_vars

----------------------------------------------------------------------------
(* Properties *)

Range(list) == {list[i] : i \in 1..Len(list)}

Known(perm) == perm \in DOMAIN PERMISSION_METADATA

Returned == response.outcome = "return"

\* sum over the list elements of the metadata severity, 0 for an absent name
RECURSIVE KnownSeveritySum(_)
KnownSeveritySum(permissions) ==
    IF permissions = <<>> THEN 0
    ELSE (IF Known(Head(permissions)) THEN PERMISSION_METADATA[Head(permissions)].severity ELSE 0)
         + KnownSeveritySum(Tail(permissions))

\* C1: calculate_severity_score returns total_score equal to the sum of the
\* metadata severities of the list elements that are metadata keys, counted
\* once per occurrence; elements absent from the metadata add 0.
C1_TotalScoreIsKnownSeveritySum ==
    request.op = "calculate_severity_score"
    => response.body.total_score = KnownSeveritySum(request.permissions)

\* a list with an unknown name and a repeated known name has been scored
C1_Witness ==
    /\ request.op = "calculate_severity_score"
    /\ \E i, j \in 1..Len(request.permissions) :
          /\ i < j
          /\ request.permissions[i] = request.permissions[j]
          /\ Known(request.permissions[i])
    /\ \E i \in 1..Len(request.permissions) : ~Known(request.permissions[i])
    /\ response.body.total_score > 0

Levels == {"LOW", "MEDIUM", "HIGH", "CRITICAL"}

LevelRank == [LOW |-> 1, MEDIUM |-> 2, HIGH |-> 3, CRITICAL |-> 4]

\* C2: calculate_risk_level returns one of the four levels for every score
\* from 0 up, and never returns a lower level for a higher score: every
\* smaller score is classified at or below the level of the score served.
C2_RiskLevelTotalAndMonotonic ==
    request.op = "calculate_risk_level"
    => /\ response.body \in Levels
       /\ \A smaller \in 0..request.score :
             /\ calculate_risk_level(smaller) \in Levels
             /\ LevelRank[calculate_risk_level(smaller)] <= LevelRank[response.body]

\* a score above the last band's maximum fell through to CRITICAL
C2_Witness ==
    /\ request.op = "calculate_risk_level"
    /\ \A i \in 1..Len(RISK_THRESHOLDS) : request.score > RISK_THRESHOLDS[i].threshold.items[2]
    /\ response.body = "CRITICAL"

\* the permission names listed under the i-th returned category
CategoryNames(categorized, i) ==
    {categorized[i].permissions[j].name : j \in 1..Len(categorized[i].permissions)}

\* C3: the names appearing across the categories categorize_permissions
\* returns are exactly the input names that are metadata keys, and each name
\* appears only under its own metadata category, so under one category only.
C3_CategorizePartitionsKnownPermissions ==
    request.op = "categorize_permissions"
    => LET categorized == response.body
           entries == 1..Len(categorized)
       IN  /\ UNION {CategoryNames(categorized, i) : i \in entries}
              = {p \in Range(request.permissions) : Known(p)}
           /\ \A i \in entries : \A name \in CategoryNames(categorized, i) :
                 PERMISSION_METADATA[name].category = categorized[i].category
           /\ \A i, j \in entries :
                 i # j => CategoryNames(categorized, i) \cap CategoryNames(categorized, j) = {}

\* a list with an unknown name and two known names of one category fell into one entry
C3_Witness ==
    /\ request.op = "categorize_permissions"
    /\ \E p \in Range(request.permissions) : ~Known(p)
    /\ \E i \in 1..Len(response.body) : Cardinality(CategoryNames(response.body, i)) >= 2

\* the table's related list of a primary, cut down to the names in the input,
\* in the table's order
RECURSIVE TableOrderFiltered(_, _)
TableOrderFiltered(related, inputs) ==
    IF related = <<>> THEN <<>>
    ELSE (IF Head(related) \in inputs THEN <<Head(related)>> ELSE <<>>)
         \o TableOrderFiltered(Tail(related), inputs)

\* the (primary, correlated) pairs of a correlations list
CorrelationPairs(correlations) ==
    {<<correlations[i].primary, correlations[i].correlated>> : i \in 1..Len(correlations)}

Reorderings(list) ==
    {[i \in 1..Len(list) |-> list[f[i]]] :
        f \in {g \in [1..Len(list) -> 1..Len(list)] : \A i, j \in 1..Len(list) : g[i] = g[j] => i = j}}

\* C4: detect_permission_correlations has an entry for a primary exactly when
\* the primary is in the input, is a key of PERMISSION_CORRELATIONS and has a
\* related name in the input; correlated is the table's list cut down to the
\* input in the table's order and count is its length.  Every permutation of
\* the input gives the same set of (primary, correlated) pairs, and when the
\* input holds just A and B, A lists B and B does not list A, only A has an entry.
C4_CorrelationsFollowTable ==
    request.op = "detect_permission_correlations"
    => LET permissions == request.permissions
           inputs == Range(permissions)
           correlations == response.body.correlations
           primaries == {correlations[i].primary : i \in 1..Len(correlations)}
           Lists(a, b) == a \in DOMAIN PERMISSION_CORRELATIONS /\ In(b, PERMISSION_CORRELATIONS[a])
       IN  /\ \A i \in 1..Len(correlations) :
                 /\ correlations[i].primary \in inputs \cap DOMAIN PERMISSION_CORRELATIONS
                 /\ correlations[i].correlated
                    = TableOrderFiltered(PERMISSION_CORRELATIONS[correlations[i].primary], inputs)
                 /\ correlations[i].correlated # <<>>
                 /\ correlations[i].count = Len(correlations[i].correlated)
           /\ \A p \in inputs \cap DOMAIN PERMISSION_CORRELATIONS :
                 TableOrderFiltered(PERMISSION_CORRELATIONS[p], inputs) # <<>> => p \in primaries
           /\ \A permuted \in Reorderings(permissions) :
                 CorrelationPairs(detect_permission_correlations(permuted).correlations)
                 = CorrelationPairs(correlations)
           /\ \A a, b \in inputs :
                 (inputs = {a, b} /\ Lists(a, b) /\ ~Lists(b, a)) => primaries = {a}

\* a one-directional pair was analysed (A lists B, B does not list A), and
\* the input has the primary's related names in the reverse of the table's order
C4_Witness ==
    /\ request.op = "detect_permission_correlations"
    /\ request.permissions = <<"LOCATION", "CONTACTS", "CAMERA">>
    /\ \E i \in 1..Len(response.body.correlations) :
          /\ response.body.correlations[i].primary = "CAMERA"
          /\ response.body.correlations[i].correlated = <<"CONTACTS", "LOCATION">>

\* a two-name input whose table entry is one-directional got an entry for the lister only
C4_OneDirectionalReached ==
    /\ request.op = "detect_permission_correlations"
    /\ request.permissions = <<"CONTACTS", "CAMERA">>
    /\ Len(response.body.correlations) = 1
    /\ response.body.correlations[1].primary = "CAMERA"

InTable(app_name) == app_name \in DOMAIN app_permission_data

\* total score of a table app: the severity sum of its declared permissions
AppScore(app_name) == KnownSeveritySum(DeclaredPermissions(app_permission_data[app_name]))

\* C5: compare_apps with exactly two names, both in the table, returns
\* highest_risk different from lowest_risk when the two total scores differ,
\* and returns the first name of the input as both when the scores tie.
C5_CompareTwoApps ==
    (/\ request.op = "compare_apps"
     /\ Len(request.app_names) = 2
     /\ InTable(request.app_names[1])
     /\ InTable(request.app_names[2]))
    => /\ Returned
       /\ AppScore(request.app_names[1]) # AppScore(request.app_names[2])
          => response.body.highest_risk # response.body.lowest_risk
       /\ AppScore(request.app_names[1]) = AppScore(request.app_names[2])
          => /\ response.body.highest_risk = request.app_names[1]
             /\ response.body.lowest_risk = request.app_names[1]

\* two different apps with equal total scores were compared
C5_Witness ==
    /\ request.op = "compare_apps"
    /\ Len(request.app_names) = 2
    /\ InTable(request.app_names[1])
    /\ InTable(request.app_names[2])
    /\ request.app_names[1] # request.app_names[2]
    /\ AppScore(request.app_names[1]) = AppScore(request.app_names[2])
    /\ Returned
    /\ response.body.highest_risk = request.app_names[1]

\* two apps with different total scores were compared
C5_DifferentScoresReached ==
    /\ request.op = "compare_apps"
    /\ Len(request.app_names) = 2
    /\ InTable(request.app_names[1])
    /\ InTable(request.app_names[2])
    /\ AppScore(request.app_names[1]) < AppScore(request.app_names[2])
    /\ Returned
    /\ response.body.highest_risk = request.app_names[2]
    /\ response.body.lowest_risk = request.app_names[1]

\* C6: analyze_app of a name absent from the table returns a result with an
\* error field.  bulk_analyze never fails on an unknown name: it answers 404
\* exactly when no supplied name is in the table, and otherwise returns the
\* reports of the names that are in the table, in input order, the unknown
\* names left out.
C6_UnknownAppIsAnErrorResult ==
    /\ (request.op = "analyze_app" /\ ~InTable(request.app_name))
       => /\ Returned
          /\ "error" \in DOMAIN response.body
    /\ request.op = "bulk_analyze"
       => LET valid == SelectSeq(request.app_names, InTable)
          IN  IF valid = <<>>
              THEN /\ response.outcome = "http_error"
                   /\ response.status_code = 404
              ELSE /\ Returned
                   /\ response.body.total_apps_analyzed = Len(valid)
                   /\ Len(response.body.apps) = Len(valid)
                   /\ \A i \in 1..Len(valid) : response.body.apps[i].app_name = valid[i]

\* a bulk request mixing an unknown name with a table app returned the table app's report
C6_Witness ==
    /\ request.op = "bulk_analyze"
    /\ \E i \in 1..Len(request.app_names) : ~InTable(request.app_names[i])
    /\ Returned
    /\ response.body.total_apps_analyzed = 1
    /\ Len(request.app_names) = 2

\* analyze_app was called with a name absent from the table
C6_UnknownAnalyzeReached ==
    /\ request.op = "analyze_app"
    /\ ~InTable(request.app_name)
    /\ "error" \in DOMAIN response.body

InstagramPermissions == <<"INTERNET", "CAMERA", "MICROPHONE", "LOCATION">>

\* C7 as stated: the Instagram list scores 1+8+9+9 = 27 and 27 is HIGH.
C7_InstagramIsHigh ==
    /\ (request.op = "scan_app" /\ request.app_name = "Instagram")
       => /\ Returned
          /\ response.body.extracted_permissions = InstagramPermissions
          /\ response.body.risk_score = 27
          /\ response.body.risk_level = "HIGH"
    /\ (request.op = "calculate_risk_level" /\ request.score = 27)
       => response.body = "HIGH"

\* C7 (amended): the Instagram list [INTERNET, CAMERA, MICROPHONE, LOCATION]
\* scores 1+8+9+9 = 27, and calculate_risk_level(27) under the declared
\* thresholds is MEDIUM, the band (16, 45).
C7_InstagramIsMedium ==
    /\ (request.op = "scan_app" /\ request.app_name = "Instagram")
       => /\ Returned
          /\ response.body.extracted_permissions = InstagramPermissions
          /\ response.body.risk_score = 1 + 8 + 9 + 9
          /\ response.body.risk_level = "MEDIUM"
    /\ (request.op = "calculate_risk_level" /\ request.score = 27)
       => response.body = "MEDIUM"

\* Instagram was scanned
C7_Witness ==
    /\ request.op = "scan_app"
    /\ request.app_name = "Instagram"
    /\ Returned
    /\ response.body.risk_score = 27

FakeAppPermissions == <<"INTERNET", "CAMERA", "MICROPHONE", "CONTACTS", "SMS", "CALL_LOG">>

\* C8: the "full communication profile" pattern is emitted only if the exact
\* names READ_CONTACTS, READ_SMS and CALL_LOG are all in the input; CONTACTS
\* and SMS do not stand in for them, so FakeApp's list does not trigger it.
C8_CommunicationProfileNeedsExactNames ==
    /\ request.op = "detect_permission_correlations"
       => (In(CommunicationProfilePattern, response.body.suspicious_patterns)
           => {"READ_CONTACTS", "READ_SMS", "CALL_LOG"} \subseteq Range(request.permissions))
    /\ (request.op = "detect_threats" /\ request.app_name = "FakeApp")
       => /\ Returned
          /\ DeclaredPermissions(app_permission_data["FakeApp"]) = FakeAppPermissions
          /\ ~In(CommunicationProfilePattern, response.body.suspicious_patterns)

\* FakeApp's list, holding CONTACTS, SMS and CALL_LOG, went through the pattern rules
C8_Witness ==
    /\ request.op = "detect_threats"
    /\ request.app_name = "FakeApp"
    /\ Returned
    /\ {"CONTACTS", "SMS", "CALL_LOG"}
       \subseteq Range(DeclaredPermissions(app_permission_data["FakeApp"]))

\* the pattern fired on a list with the three exact names
C8_PatternFiredReached ==
    /\ request.op = "detect_permission_correlations"
    /\ In(CommunicationProfilePattern, response.body.suspicious_patterns)

\* the permissions an app record declares, whatever its shape
Declared(app_name) ==
    LET app_data == app_permission_data[app_name]
    IN  IF app_data.shape = "list" THEN app_data.items
        ELSE IF "declared_permissions" \in DOMAIN app_data.fields
        THEN app_data.fields.declared_permissions
        ELSE <<>>

\* the dangerous-permission count of an app record: for a list, the declared
\* entries the metadata marks dangerous; for a dict, the length of its
\* dangerous_permissions field
DangerousCount(app_name) ==
    LET app_data == app_permission_data[app_name]
    IN  IF app_data.shape = "list"
        THEN Cardinality({i \in 1..Len(app_data.items) :
                             /\ Known(app_data.items[i])
                             /\ PERMISSION_METADATA[app_data.items[i]].dangerous})
        ELSE IF "dangerous_permissions" \in DOMAIN app_data.fields
        THEN Len(app_data.fields.dangerous_permissions)
        ELSE 0

\* C9: for every app of the table, of either record shape,
\* detect_threat_indicators sets privilege_escalation iff DEVICE_ADMIN is
\* declared; data_exfiltration_risk to CRITICAL for a dangerous count d > 10,
\* HIGH for 6 < d <= 10, MEDIUM for 3 < d <= 6, else LOW; financial_risk to
\* HIGH iff SEND_SMS or CALL_PHONE is declared, else LOW; privacy_risk to
\* CRITICAL for a declared count n > 15, HIGH for 10 < n <= 15, else LOW.
C9_ThreatIndicatorBands ==
    (request.op = "detect_threat_indicators" /\ InTable(request.app_name))
    => LET declared == Range(Declared(request.app_name))
           d == DangerousCount(request.app_name)
           n == Len(Declared(request.app_name))
           indicators == response.body
       IN  /\ indicators.privilege_escalation = ("DEVICE_ADMIN" \in declared)
           /\ indicators.data_exfiltration_risk
              = (IF d > 10 THEN "CRITICAL"
                 ELSE IF 6 < d /\ d <= 10 THEN "HIGH"
                 ELSE IF 3 < d /\ d <= 6 THEN "MEDIUM"
                 ELSE "LOW")
           /\ indicators.financial_risk
              = (IF "SEND_SMS" \in declared \/ "CALL_PHONE" \in declared THEN "HIGH" ELSE "LOW")
           /\ indicators.privacy_risk
              = (IF n > 15 THEN "CRITICAL"
                 ELSE IF 10 < n /\ n <= 15 THEN "HIGH"
                 ELSE "LOW")

\* a dict-shaped record at the top of the HIGH exfiltration band (d = 10),
\* declaring DEVICE_ADMIN and CALL_PHONE, with more than 15 permissions
C9_Witness ==
    /\ request.op = "detect_threat_indicators"
    /\ InTable(request.app_name)
    /\ app_permission_data[request.app_name].shape = "dict"
    /\ DangerousCount(request.app_name) = 10
    /\ response.body.data_exfiltration_risk = "HIGH"
    /\ response.body.privilege_escalation
    /\ response.body.financial_risk = "HIGH"
    /\ response.body.privacy_risk = "CRITICAL"

\* a list-shaped record whose computed dangerous count is above 10
C9_ListCriticalReached ==
    /\ request.op = "detect_threat_indicators"
    /\ InTable(request.app_name)
    /\ app_permission_data[request.app_name].shape = "list"
    /\ response.body.data_exfiltration_risk = "CRITICAL"
    /\ response.body.privacy_risk = "HIGH"

\* position of a string in a list, 0 when absent
IndexOf(list, x) == IF In(x, list) THEN CHOOSE i \in 1..Len(list) : list[i] = x ELSE 0

\* the listed strings that are present appear in the listed order
InRuleOrder(detected_threats, rule_strings) ==
    \A a, b \in 1..Len(rule_strings) :
        (a < b /\ In(rule_strings[a], detected_threats) /\ In(rule_strings[b], detected_threats))
        => IndexOf(detected_threats, rule_strings[a]) < IndexOf(detected_threats, rule_strings[b])

RuleStrings ==
    <<DeviceAdminThreat, ExcessiveDangerousThreat, FinancialThreat, PermissionCountThreat>>

\* C10 as stated: every indicator that is raised, any band above LOW included,
\* has its string in detected_threats, and the strings are in rule order.
C10_EveryRaisedIndicatorHasAString ==
    (request.op = "detect_threat_indicators" /\ InTable(request.app_name))
    => LET indicators == response.body
       IN  /\ indicators.privilege_escalation
              => In(DeviceAdminThreat, indicators.detected_threats)
           /\ indicators.data_exfiltration_risk # "LOW"
              => In(ExcessiveDangerousThreat, indicators.detected_threats)
           /\ indicators.financial_risk = "HIGH"
              => In(FinancialThreat, indicators.detected_threats)
           /\ indicators.privacy_risk # "LOW"
              => In(PermissionCountThreat, indicators.detected_threats)
           /\ InRuleOrder(indicators.detected_threats, RuleStrings)

\* C10 (amended): detected_threats holds the privilege string iff
\* privilege_escalation is true, the exfiltration string iff
\* data_exfiltration_risk is CRITICAL, the financial string iff
\* financial_risk is HIGH, the permission-count string iff privacy_risk is
\* CRITICAL, each once, in that rule order, and nothing else; the MEDIUM and
\* HIGH exfiltration bands and the HIGH privacy band append no string.
C10_CriticalBandsAppendInRuleOrder ==
    (request.op = "detect_threat_indicators" /\ InTable(request.app_name))
    => LET indicators == response.body
       IN  indicators.detected_threats
           = (IF indicators.privilege_escalation THEN <<DeviceAdminThreat>> ELSE <<>>)
             \o (IF indicators.data_exfiltration_risk = "CRITICAL"
                 THEN <<ExcessiveDangerousThreat>> ELSE <<>>)
             \o (IF indicators.financial_risk = "HIGH" THEN <<FinancialThreat>> ELSE <<>>)
             \o (IF indicators.privacy_risk = "CRITICAL"
                 THEN <<PermissionCountThreat>> ELSE <<>>)

\* all four rules fired on one app
C10_Witness ==
    /\ request.op = "detect_threat_indicators"
    /\ InTable(request.app_name)
    /\ response.body.detected_threats = RuleStrings

\* a raised band below CRITICAL left detected_threats empty
C10_SilentBandReached ==
    /\ request.op = "detect_threat_indicators"
    /\ request.app_name = "FakeApp"
    /\ response.body.data_exfiltration_risk = "MEDIUM"
    /\ response.body.detected_threats = <<>>

\* the declared limits of a band, whatever its shape
BandMin(threshold) ==
    IF threshold.shape = "dict" THEN threshold.fields.min ELSE threshold.items[1]

BandMax(threshold) ==
    IF threshold.shape = "dict" THEN threshold.fields.max ELSE threshold.items[2]

\* C11: the declared bands are contiguous, the first starting at 0 and each
\* later one at the previous maximum plus one, and every total_score that
\* calculate_severity_score produces lies inside the limits of some declared band.
C11_BandsCoverEveryProducedScore ==
    /\ BandMin(risk_thresholds[1].threshold) = 0
    /\ \A i \in 2..Len(risk_thresholds) :
          BandMin(risk_thresholds[i].threshold) = BandMax(risk_thresholds[i - 1].threshold) + 1
    /\ request.op = "calculate_severity_score"
       => \E i \in 1..Len(risk_thresholds) :
             /\ BandMin(risk_thresholds[i].threshold) <= response.body.total_score
             /\ response.body.total_score <= BandMax(risk_thresholds[i].threshold)

\* a band table rewritten with every band as a 2-tuple / as a {min, max} dict
AsTuples(thresholds) ==
    [i \in 1..Len(thresholds) |->
        [level |-> thresholds[i].level,
         threshold |-> TupleBand(<<BandMin(thresholds[i].threshold),
                                   BandMax(thresholds[i].threshold)>>)]]

AsDicts(thresholds) ==
    [i \in 1..Len(thresholds) |->
        [level |-> thresholds[i].level,
         threshold |-> DictBand([min |-> BandMin(thresholds[i].threshold),
                                 max |-> BandMax(thresholds[i].threshold)])]]

\* C12: for every score and every band table, calculate_risk_level returns
\* the same level whether the bands are {min, max} dicts or 2-tuples with the
\* same limits; a table mixing the two shapes classifies the same way too.
C12_DictAndTupleBandsClassifyAlike ==
    request.op = "calculate_risk_level"
    => /\ RiskLevelLoop(AsDicts(risk_thresholds), request.score)
          = RiskLevelLoop(AsTuples(risk_thresholds), request.score)
       /\ response.body = RiskLevelLoop(AsTuples(risk_thresholds), request.score)
       /\ response.body = RiskLevelLoop(AsDicts(risk_thresholds), request.score)

\* a score was classified by the second band of a table of dict-shaped bands
C12_Witness ==
    /\ request.op = "calculate_risk_level"
    /\ \A i \in 1..Len(risk_thresholds) : risk_thresholds[i].threshold.shape = "dict"
    /\ Len(risk_thresholds) >= 2
    /\ BandMin(risk_thresholds[2].threshold) > 0
    /\ response.body = risk_thresholds[2].level
    /\ ~Matches(risk_thresholds[1].threshold, request.score)

\* a negative score matched no band of a table of tuple-shaped bands
C12_NegativeScoreReached ==
    /\ request.op = "calculate_risk_level"
    /\ request.score < 0
    /\ \A i \in 1..Len(risk_thresholds) : risk_thresholds[i].threshold.shape = "tuple"
    /\ response.body = "CRITICAL"

\* C13: analyze_permissions never fails on an unknown name.  If any input
\* name is not a metadata key it returns a warning naming exactly the unknown
\* names, with the list of the input names that are known, and nothing else;
\* if every name is known it returns the full breakdown, risk_score being the
\* total score and risk_level the level calculate_risk_level gives that score.
C13_UnknownNamesGiveAWarning ==
    request.op = "analyze_permissions"
    => LET permissions == request.permissions
           unknown == SelectSeq(permissions, LAMBDA p : ~Known(p))
       IN  /\ Returned
           /\ unknown # <<>>
              => /\ DOMAIN response.body = {"warning", "valid_permissions"}
                 /\ response.body.warning = unknown
                 /\ response.body.valid_permissions = SelectSeq(permissions, Known)
           /\ unknown = <<>>
              => /\ DOMAIN response.body
                    = {"permissions_count", "risk_score", "risk_level", "severity_analysis",
                       "correlation_analysis", "privacy_analysis", "categorized_permissions"}
                 /\ response.body.permissions_count = Len(permissions)
                 /\ response.body.risk_score = KnownSeveritySum(permissions)
                 /\ response.body.risk_score = response.body.severity_analysis.total_score
                 /\ response.body.risk_level = calculate_risk_level(response.body.risk_score)

\* a list with the unknown name twice and a known name got the warning
C13_Witness ==
    /\ request.op = "analyze_permissions"
    /\ Returned
    /\ "warning" \in DOMAIN response.body
    /\ Len(response.body.warning) = 2
    /\ response.body.valid_permissions # <<>>

\* a list of known names got the full breakdown
C13_BreakdownReached ==
    /\ request.op = "analyze_permissions"
    /\ Returned
    /\ "risk_score" \in DOMAIN response.body
    /\ response.body.risk_score > 15
    /\ response.body.risk_level = "MEDIUM"

\* C14: no operation writes shared state.  Whatever operations have been
\* served (scan, analyze, analyze-permissions, detect-threats, bulk-analyze,
\* compare, the list operations, health), the permission metadata, the
\* category table, the app table, the correlation table and the band table
\* are the tables the service started with, so an operation reads the same
\* tables whichever operations ran before it.
C14_TablesNeverWritten ==
    /\ permission_metadata = PERMISSION_METADATA
    /\ permission_categories = PERMISSION_CATEGORIES
    /\ app_permission_data = APP_PERMISSION_DATA
    /\ permission_correlations = PERMISSION_CORRELATIONS
    /\ risk_thresholds = RISK_THRESHOLDS

\* a scan returned the table's own list as extracted_permissions, and the
\* table still holds it
C14_Witness ==
    /\ request.op = "scan_app"
    /\ Returned
    /\ response.body.extracted_permissions = APP_PERMISSION_DATA[request.app_name].items
    /\ app_permission_data[request.app_name].items = response.body.extracted_permissions

\* the metadata table itself was handed out by the list operation
C14_MetadataListedReached ==
    /\ request.op = "get_permissions"
    /\ request.category = ""
    /\ response.body = permission_metadata

C15_MissingCategoryReached ==
    /\ request.op = "categorize_permissions"
    /\ \E p \in Range(request.permissions) :
          Known(p) /\ PERMISSION_METADATA[p].category \notin DOMAIN permission_categories
    /\ response = Raise("KeyError")

\* C16: pattern_risk_level is CRITICAL exactly when one of the four rules
\* fires (SMS with CALL_PHONE; DEVICE_ADMIN; READ_CONTACTS with READ_SMS and
\* CALL_LOG; CAMERA with MICROPHONE and ACCESS_FINE_LOCATION) and NORMAL
\* otherwise, whatever the correlations list holds.
C16_PatternRiskLevelFollowsTheRules ==
    request.op = "detect_permission_correlations"
    => LET inputs == Range(request.permissions)
           fires == \/ {"SMS", "CALL_PHONE"} \subseteq inputs
                    \/ "DEVICE_ADMIN" \in inputs
                    \/ {"READ_CONTACTS", "READ_SMS", "CALL_LOG"} \subseteq inputs
                    \/ {"CAMERA", "MICROPHONE", "ACCESS_FINE_LOCATION"} \subseteq inputs
       IN  /\ response.body.pattern_risk_level = (IF fires THEN "CRITICAL" ELSE "NORMAL")
           /\ fires <=> response.body.suspicious_patterns # <<>>

\* CRITICAL with an empty correlations list
C16_Witness ==
    /\ request.op = "detect_permission_correlations"
    /\ response.body.pattern_risk_level = "CRITICAL"
    /\ response.body.correlations = <<>>

\* NORMAL with a non-empty correlations list
C16_NormalWithCorrelationsReached ==
    /\ request.op = "detect_permission_correlations"
    /\ response.body.pattern_risk_level = "NORMAL"
    /\ response.body.correlations # <<>>

\* the permission names of a bucket, in the bucket's order
BucketNames(bucket) == [i \in 1..Len(bucket) |-> bucket[i].permission]

\* the known names of a list whose severity lies in lo..hi, in the list's order
KnownWithin(permissions, lo, hi) ==
    SelectSeq(permissions,
              LAMBDA p : /\ Known(p)
                         /\ lo <= PERMISSION_METADATA[p].severity
                         /\ PERMISSION_METADATA[p].severity <= hi)

RECURSIVE SumCategoryScores(_)
SumCategoryScores(category_scores) ==
    IF category_scores = <<>> THEN 0
    ELSE Head(category_scores).score + SumCategoryScores(Tail(category_scores))

\* C17: calculate_severity_score puts each occurrence of a known permission
\* in exactly one bucket, in input order: critical for severity 8 and above,
\* dangerous for 5 to 7, normal below 5; unknown names are in no bucket; the
\* three counts add up to the number of known occurrences; and the category
\* scores add up to total_score.
C17_BucketsPartitionKnownOccurrences ==
    request.op = "calculate_severity_score"
    => LET permissions == request.permissions
           result == response.body
           breakdown == result.severity_breakdown
       IN  /\ BucketNames(breakdown.critical) = KnownWithin(permissions, 8, 10)
           /\ BucketNames(breakdown.dangerous) = KnownWithin(permissions, 5, 7)
           /\ BucketNames(breakdown.normal) = KnownWithin(permissions, 0, 4)
           /\ result.critical_count = Len(breakdown.critical)
           /\ result.dangerous_count = Len(breakdown.dangerous)
           /\ result.normal_count = Len(breakdown.normal)
           /\ result.critical_count + result.dangerous_count + result.normal_count
              = Len(SelectSeq(permissions, Known))
           /\ SumCategoryScores(result.category_scores) = result.total_score

\* a list with an unknown name and known names of all three buckets, one of
\* them of severity exactly 8
C17_Witness ==
    /\ request.op = "calculate_severity_score"
    /\ \E p \in Range(request.permissions) : ~Known(p)
    /\ In("CAMERA", BucketNames(response.body.severity_breakdown.critical))
    /\ response.body.dangerous_count > 0
    /\ response.body.normal_count > 0
    /\ Len(response.body.category_scores) >= 2

\* a permission occurring twice was put in its bucket twice
C17_DuplicateReached ==
    /\ request.op = "calculate_severity_score"
    /\ request.permissions = <<"CALL_PHONE", "CAMERA", "CALL_PHONE">>
    /\ response.body.dangerous_count = 2

\* C18: for every app of the table, scan's risk_score and risk_level are
\* the risk_score and risk_level analyze reports for it; the risk_score of
\* its entry in a comparison is that same score; and detect-threats'
\* suspicious_patterns are the ones inside analyze's correlation analysis.
C18_RoutesAgreeWithAnalyze ==
    /\ (request.op = "scan_app" /\ InTable(request.app_name))
       => /\ Returned
          /\ response.body.risk_score = analyze_app(request.app_name).risk_score
          /\ response.body.risk_level = analyze_app(request.app_name).risk_level
    /\ (request.op = "compare_apps" /\ Returned)
       => \A i \in 1..Len(response.body.comparison) :
             response.body.comparison[i].risk_score
             = analyze_app(response.body.comparison[i].app_name).risk_score
    /\ (request.op = "detect_threats" /\ InTable(request.app_name))
       => /\ Returned
          /\ response.body.suspicious_patterns
             = analyze_app(request.app_name).risk_assessment.correlations.suspicious_patterns
    /\ (request.op = "analyze_app" /\ InTable(request.app_name))
       => /\ Returned
          /\ response.body.risk_score = AppScore(request.app_name)

\* a dict-shaped record whose declared and dangerous lists differ was scanned
C18_Witness ==
    /\ request.op = "scan_app"
    /\ InTable(request.app_name)
    /\ app_permission_data[request.app_name].shape = "dict"
    /\ Len(Declared(request.app_name)) > DangerousCount(request.app_name)
    /\ Returned
    /\ response.body.risk_score > 0
    /\ response.body.risk_level = "HIGH"

\* a comparison held an entry with a score above 0
C18_ComparisonReached ==
    /\ request.op = "compare_apps"
    /\ Returned
    /\ Len(response.body.comparison) = 2
    /\ response.body.comparison[2].risk_score > 0

\* detect-threats reported a pattern for a table app
C18_PatternsReached ==
    /\ request.op = "detect_threats"
    /\ InTable(request.app_name)
    /\ Returned
    /\ response.body.suspicious_patterns # <<>>

====
